---------------------------- MODULE Spec2Model ----------------------------
(***************************************************************************)
(* A model of epub-thumbnailer (src/src/epub-thumbnailer.py): the cover    *)
(* resolution strategies, the extraction step and the main loop that       *)
(* chains them.                                                            *)
(*                                                                         *)
(* A Python str is a tuple of one-character strings, so that replace,      *)
(* dirname, join and the two regular expressions are computed character by *)
(* character.  None is the record NoneVal; a returned str p is Some(p).    *)
(***************************************************************************)
EXTENDS Integers, Sequences, FiniteSets

VARIABLES
    platform,        \* which os.path the interpreter binds: "posix" or "nt"
    argc,            \* len(sys.argv)
    size_ok,         \* whether int(sys.argv[3]) parses
    epub,            \* the input: [zip_ok, filelist]
    render_ok,       \* whether thumbnail/convert/save of a decoded image succeed
    pc,              \* position of the main program
    cover_found,     \* the flag of line 189
    log,             \* one record per strategy step taken, in order
    exit_code,       \* the argument of sys.exit, -1 while running
    output_written,  \* whether im.save has written output_file
    idx,             \* the position of the loop of line 190 in extraction_strategies
    arg,             \* the argument of a direct call of normalize_path
    ret              \* the value a direct call returned

vars == <<platform, argc, size_ok, epub, render_ok, pc, cover_found, log,
          exit_code, output_written, idx, arg, ret>>

(***************************************************************************)
(* Bounds of the model.                                                    *)
(***************************************************************************)
MaxPathLen == 7

MaxFiles == 3

MaxMetas == 2

MaxItems == 2

MaxRefs == 2

MaxImages == 2

(***************************************************************************)
(* Python values.                                                          *)
(***************************************************************************)
NoneVal == [some |-> FALSE, val |-> <<>>]

Some(p) == [some |-> TRUE, val |-> p]

\* Python truthiness of an optional str: None and "" are false.
Truthy(r) == r.some /\ r.val # <<>>

StartsWithAt(s, i, t) ==
    /\ i + Len(t) - 1 <= Len(s)
    /\ \A k \in 1..Len(t) : s[i + k - 1] = t[k]

EndsWith(s, t) == Len(t) <= Len(s) /\ StartsWithAt(s, Len(s) - Len(t) + 1, t)

\* t in s
Contains(s, t) == \E i \in 1..(Len(s) + 1) : StartsWithAt(s, i, t)

LowerChar(c) ==
    CASE c = "C" -> "c" [] c = "O" -> "o" [] c = "V" -> "v" [] c = "E" -> "e"
      [] c = "R" -> "r" [] c = "J" -> "j" [] c = "P" -> "p" [] c = "G" -> "g"
      [] c = "N" -> "n" [] c = "A" -> "a" [] c = "B" -> "b" [] c = "X" -> "x"
      [] OTHER -> c

\* str.lower()
Lower(s) == [i \in 1..Len(s) |-> LowerChar(s[i])]

\* str.replace(old, new): non-overlapping occurrences, left to right, one pass.
RECURSIVE ReplaceFrom(_, _, _, _)
ReplaceFrom(s, i, old, new) ==
    IF i > Len(s) THEN <<>>
    ELSE IF StartsWithAt(s, i, old)
         THEN new \o ReplaceFrom(s, i + Len(old), old, new)
         ELSE <<s[i]>> \o ReplaceFrom(s, i + 1, old, new)

Replace(s, old, new) == ReplaceFrom(s, 1, old, new)

\* line 41
normalize_path(path) ==
    Replace(Replace(path, <<"\\">>, <<"/">>), <<"/", "/">>, <<"/">>)

(***************************************************************************)
(* os.path, as the program uses it (lines 65, 79, 90).  Which module       *)
(* os.path is depends on the platform the interpreter runs on: posixpath   *)
(* separates with "/" only, ntpath with both "/" and "\" and joins with    *)
(* "\".  Drive letters and UNC prefixes (a path that starts with two       *)
(* separators) are outside the alphabet of the model.                      *)
(***************************************************************************)
Seps(pf) == IF pf = "nt" THEN {"/", "\\"} ELSE {"/"}

\* str.rstrip(chars)
RECURSIVE RStrip(_, _)
RStrip(s, chars) ==
    IF s # <<>> /\ s[Len(s)] \in chars THEN RStrip(SubSeq(s, 1, Len(s) - 1), chars)
    ELSE s

\* the length of the longest prefix of s that ends with a character of chars
RECURSIVE LastSep(_, _)
LastSep(s, chars) ==
    IF s = <<>> \/ s[Len(s)] \in chars THEN Len(s)
    ELSE LastSep(SubSeq(s, 1, Len(s) - 1), chars)

AllIn(s, chars) == \A i \in 1..Len(s) : s[i] \in chars

\* os.path.dirname(p)
dirname(pf, p) ==
    IF pf = "nt"
    THEN LET root == IF p # <<>> /\ p[1] \in Seps(pf) THEN <<p[1]>> ELSE <<>>
             rest == SubSeq(p, Len(root) + 1, Len(p))
             head == SubSeq(rest, 1, LastSep(rest, Seps(pf)))
         IN  root \o RStrip(head, Seps(pf))
    ELSE LET head == SubSeq(p, 1, LastSep(p, {"/"}))
         IN  IF head # <<>> /\ ~AllIn(head, {"/"}) THEN RStrip(head, {"/"})
             ELSE head

\* A buggy variant: the directory of the rootfile is dropped.
join_drops_directory(pf, a, b) == b

\* os.path.join(a, b)
join(pf, a, b) ==
    IF b # <<>> /\ b[1] \in Seps(pf) THEN b
    ELSE IF pf = "nt"
    THEN LET root == IF a # <<>> /\ a[1] \in Seps(pf) THEN <<a[1]>> ELSE <<>>
             rest == SubSeq(a, Len(root) + 1, Len(a))
         IN  IF rest # <<>> /\ rest[Len(rest)] \notin Seps(pf)
             THEN root \o rest \o <<"\\">> \o b
             ELSE root \o rest \o b
    ELSE IF a = <<>> \/ a[Len(a)] = "/" THEN a \o b
         ELSE a \o <<"/">> \o b

(***************************************************************************)
(* The two regular expressions (lines 36-37), both compiled IGNORECASE and *)
(* both used with match(), which anchors at the start of the string only.  *)
(* No name of the model holds a line break.                                *)
(***************************************************************************)
ImgExts == {<<".", "j", "p", "g">>, <<".", "j", "p", "e", "g">>, <<".", "p", "n", "g">>}

cover_word == <<"c", "o", "v", "e", "r">>

\* img_ext_regex.match(s): ^.*\.(jpg|jpeg|png)$
img_ext_regex(s) == LET l == Lower(s) IN \E e \in ImgExts : EndsWith(l, e)

\* cover_regex.match(s): .*cover.*\.(jpg|jpeg|png), with no $ at its end
cover_regex(s) ==
    LET l == Lower(s)
    IN  \E i \in 1..Len(l) :
            /\ StartsWithAt(l, i, cover_word)
            /\ \E j \in (i + Len(cover_word))..Len(l), e \in ImgExts :
                   StartsWithAt(l, j, e)

(***************************************************************************)
(* The archive.  epub.filelist is a sequence of entries                    *)
(* [filename, file_size, data]; data is what the bytes of the entry are:   *)
(*   [t |-> "image"]  bytes PIL decodes as an image,                       *)
(*   [t |-> "bytes"]  bytes that are neither an image nor well-formed XML, *)
(*   [t |-> "xml", rootfile, meta, manifest, reference, img]  a document   *)
(*      minidom parses, with what getElementsByTagName returns for each    *)
(*      tag the program asks for, in document order.  An attribute is its  *)
(*      value, "" when the element lacks it (getAttribute's answer).       *)
(***************************************************************************)
ImageData == [t |-> "image"]

BytesData == [t |-> "bytes"]

\* rootfile: full-path values; meta: [name, content]; manifest: one sequence of
\* items [id, properties, href] per manifest element; reference: [type, href];
\* img: src values.
Xml(rootfile, meta, manifest, reference, img) ==
    [t |-> "xml", rootfile |-> rootfile, meta |-> meta, manifest |-> manifest,
     reference |-> reference, img |-> img]

File(filename, file_size, data) ==
    [filename |-> filename, file_size |-> file_size, data |-> data]

container_xml == <<"M", "E", "T", "A", "-", "I", "N", "F", "/", "c", "o", "n", "t", "a", "i", "n", "e", "r", ".", "x", "m", "l">>

\* Whether ZipFile.open(name) finds an entry (KeyError otherwise).
HasEntry(zf, name) == \E i \in 1..Len(zf.filelist) : zf.filelist[i].filename = name

\* ZipFile.open(name).read(): of entries that share a name the last one is found.
ReadEntry(zf, name) ==
    LET i == CHOOSE k \in 1..Len(zf.filelist) :
                 /\ zf.filelist[k].filename = name
                 /\ \A m \in (k + 1)..Len(zf.filelist) : zf.filelist[m].filename # name
    IN  zf.filelist[i].data

\* epub.open(name) followed by minidom.parseString: neither raises.
OpensAsXml(zf, name) == HasEntry(zf, name) /\ ReadEntry(zf, name).t = "xml"

Failed == [ok |-> FALSE, rootfile_path |-> <<>>, root |-> BytesData]

\* A buggy variant: without a container.xml the rootfile path is guessed.
_get_rootfile_root_guesses(zf) ==
    LET rootfile_path ==
            IF OpensAsXml(zf, container_xml)
               /\ ReadEntry(zf, container_xml).rootfile # <<>>
            THEN ReadEntry(zf, container_xml).rootfile[1]
            ELSE <<"O", "E", "B", "P", "S", "/", "c", "o", "n", "t", "e", "n", "t", ".", "o", "p", "f">>
    IN  IF ~OpensAsXml(zf, rootfile_path) THEN Failed
        ELSE [ok |-> TRUE, rootfile_path |-> rootfile_path,
              root |-> ReadEntry(zf, rootfile_path)]

\* lines 99-110; ok is FALSE when any of its steps raises
_get_rootfile_root(zf) ==
    IF ~OpensAsXml(zf, container_xml) THEN Failed
    ELSE LET container_root == ReadEntry(zf, container_xml)
         IN  IF container_root.rootfile = <<>> THEN Failed
             ELSE LET rootfile_path == container_root.rootfile[1]
                  IN  IF ~OpensAsXml(zf, rootfile_path) THEN Failed
                      ELSE [ok |-> TRUE, rootfile_path |-> rootfile_path,
                            root |-> ReadEntry(zf, rootfile_path)]

(***************************************************************************)
(* The manifest strategy, lines 43-70.                                     *)
(***************************************************************************)
\* lines 48-52: the content of the first meta named "cover", else None
RECURSIVE FindCoverId(_, _)
FindCoverId(metas, i) ==
    IF i > Len(metas) THEN NoneVal
    ELSE IF metas[i].name = cover_word THEN Some(metas[i].content)
         ELSE FindCoverId(metas, i + 1)

\* lines 57-63: the condition under which an item is taken as the cover
MightBeCover(item, cover_id) ==
    LET item_href_is_image == img_ext_regex(Lower(item.href))
        item_id_might_be_cover ==
            \/ Some(item.id) = cover_id
            \/ (Contains(item.id, cover_word) /\ item_href_is_image)
        item_properties_might_be_cover ==
            \/ Some(item.properties) = cover_id
            \/ (Contains(item.properties, cover_word) /\ item_href_is_image)
    IN  item_id_might_be_cover \/ item_properties_might_be_cover

\* A buggy variant: the scan goes on after a match, so the last match wins.
RECURSIVE ScanItems_last_match(_, _, _, _, _)
ScanItems_last_match(pf, items, i, rootfile_path, cover_id) ==
    IF i > Len(items) THEN NoneVal
    ELSE LET later == ScanItems_last_match(pf, items, i + 1, rootfile_path, cover_id)
         IN  IF later.some THEN later
             ELSE IF MightBeCover(items[i], cover_id)
                  THEN Some(normalize_path(join(pf, dirname(pf, rootfile_path),
                                                items[i].href)))
                  ELSE NoneVal

\* lines 56-67: the loop over the items, from item i on
RECURSIVE ScanItems(_, _, _, _, _)
ScanItems(pf, items, i, rootfile_path, cover_id) ==
    IF i > Len(items) THEN NoneVal
    ELSE IF MightBeCover(items[i], cover_id)
         THEN LET cover_path == join(pf, dirname(pf, rootfile_path), items[i].href)
              IN  Some(normalize_path(cover_path))
         ELSE ScanItems(pf, items, i + 1, rootfile_path, cover_id)

\* lines 43-70
get_cover_from_manifest(pf, zf) ==
    LET r == _get_rootfile_root(zf)
    IN  IF ~r.ok THEN NoneVal
        ELSE LET cover_id == FindCoverId(r.root.meta, 1)
             IN  IF r.root.manifest = <<>> THEN NoneVal
                 ELSE ScanItems(pf, r.root.manifest[1], 1, r.rootfile_path, cover_id)

(***************************************************************************)
(* The guide strategy, lines 72-97.                                        *)
(***************************************************************************)
\* A buggy variant: the loop stops at the first reference of type "cover".
RECURSIVE ScanReferences_first_only(_, _, _, _, _)
ScanReferences_first_only(pf, zf, refs, i, rootfile_path) ==
    IF i > Len(refs) THEN NoneVal
    ELSE IF refs[i].type # cover_word
         THEN ScanReferences_first_only(pf, zf, refs, i + 1, rootfile_path)
         ELSE LET cover_file_path ==
                      normalize_path(join(pf, dirname(pf, rootfile_path), refs[i].href))
              IN  IF OpensAsXml(zf, cover_file_path)
                     /\ ReadEntry(zf, cover_file_path).img # <<>>
                  THEN Some(normalize_path(join(pf, dirname(pf, cover_file_path),
                                                ReadEntry(zf, cover_file_path).img[1])))
                  ELSE NoneVal

\* lines 76-94: the loop over the references, from reference i on
RECURSIVE ScanReferences(_, _, _, _, _)
ScanReferences(pf, zf, refs, i, rootfile_path) ==
    IF i > Len(refs) THEN NoneVal
    ELSE IF refs[i].type # cover_word
         THEN ScanReferences(pf, zf, refs, i + 1, rootfile_path)
         ELSE LET cover_href == refs[i].href
                  cover_file_path ==
                      normalize_path(join(pf, dirname(pf, rootfile_path), cover_href))
              IN  IF OpensAsXml(zf, cover_file_path)
                     /\ ReadEntry(zf, cover_file_path).img # <<>>
                  THEN LET img_path == ReadEntry(zf, cover_file_path).img[1]
                           full_img_path ==
                               join(pf, dirname(pf, cover_file_path), img_path)
                       IN  Some(normalize_path(full_img_path))
                  \* the inner except (line 93), or no img: on to the next reference
                  ELSE ScanReferences(pf, zf, refs, i + 1, rootfile_path)

\* lines 72-97
get_cover_by_guide(pf, zf) ==
    LET r == _get_rootfile_root(zf)
    IN  IF ~r.ok THEN NoneVal
        ELSE ScanReferences(pf, zf, r.root.reference, 1, r.rootfile_path)

(***************************************************************************)
(* The filename strategy, lines 112-129, and the fallback, lines 146-152.  *)
(***************************************************************************)
\* line 124: max(..., key=file_size) keeps the first of the largest
LargestIndex(files, idxs) ==
    CHOOSE i \in idxs :
        \A k \in idxs : \/ files[k].file_size < files[i].file_size
                        \/ (files[k].file_size = files[i].file_size /\ k >= i)

\* lines 115-126: the loop from entry i on; no_matching_images holds the
\* indexes of the entries appended so far
RECURSIVE ScanFilenames(_, _, _)
ScanFilenames(files, i, no_matching_images) ==
    IF i > Len(files)
    THEN IF no_matching_images # {}
         THEN Some(files[LargestIndex(files, no_matching_images)].filename)
         ELSE NoneVal
    ELSE IF cover_regex(files[i].filename) THEN Some(files[i].filename)
         ELSE IF img_ext_regex(files[i].filename)
              THEN ScanFilenames(files, i + 1, no_matching_images \cup {i})
              ELSE ScanFilenames(files, i + 1, no_matching_images)

\* lines 112-129
get_cover_by_filename(zf) == ScanFilenames(zf.filelist, 1, {})

\* lines 146-152
RECURSIVE FirstImage(_, _)
FirstImage(files, i) ==
    IF i > Len(files) THEN NoneVal
    ELSE IF img_ext_regex(files[i].filename) THEN Some(files[i].filename)
         ELSE FirstImage(files, i + 1)

find_any_image(zf) == FirstImage(zf.filelist, 1)

(***************************************************************************)
(* Extraction, lines 131-144.                                              *)
(***************************************************************************)
\* TRUE exactly when the function returns True, which is exactly when im.save
\* has written output_file.  rok: thumbnail, convert and save succeed.
extract_cover(zf, cover_path, rok) ==
    /\ Truthy(cover_path)
    /\ HasEntry(zf, cover_path.val)
    /\ ReadEntry(zf, cover_path.val).t = "image"
    /\ rok

(***************************************************************************)
(* The main program, lines 155-227.                                        *)
(***************************************************************************)
\* lines 183-187
extraction_strategies == <<"manifest", "guide", "filename">>

\* line 193: strategy_func(epub)
CallStrategy(name, pf, zf) ==
    CASE name = "manifest" -> get_cover_from_manifest(pf, zf)
      [] name = "guide"    -> get_cover_by_guide(pf, zf)
      [] name = "filename" -> get_cover_by_filename(zf)

\* A buggy variant: no break after a successful extraction.
AfterStrategy_no_break(i, extracted) ==
    IF i < Len(extraction_strategies) THEN [pc |-> "loop", idx |-> i + 1]
    ELSE [pc |-> "fallback", idx |-> i]

\* A buggy variant: a failed extraction ends the loop.
AfterStrategy_stops_on_failure(i, extracted) == [pc |-> "fallback", idx |-> i]

\* lines 190-205: where the loop goes after the step of strategy i
AfterStrategy(i, extracted) ==
    IF extracted THEN [pc |-> "fallback", idx |-> i]              \* break
    ELSE IF i < Len(extraction_strategies) THEN [pc |-> "loop", idx |-> i + 1]
    ELSE [pc |-> "fallback", idx |-> i]

\* A buggy variant: the two exit codes are swapped.
ExitStatus_swapped(found) == IF found THEN 1 ELSE 0

\* lines 218-227
ExitStatus(found) == IF found THEN 0 ELSE 1

NoArchive == [zip_ok |-> FALSE, filelist |-> <<>>]

\* One step of the chain, as the log keeps it.
Step(name, cover_path, extracted) ==
    [strategy |-> name, cover_path |-> cover_path, extracted |-> extracted]

(***************************************************************************)
(* Names used by the inputs below, as Python strs.                         *)
(***************************************************************************)
s_content_opf == <<"c", "o", "n", "t", "e", "n", "t", ".", "o", "p", "f">>

s_oebps_content_opf == <<"O", "E", "B", "P", "S", "/", "c", "o", "n", "t", "e", "n", "t", ".", "o", "p", "f">>

s_deep_opf == <<"a", "/", "/", "/", "b", "/", "c", ".", "o", "p", "f">>

s_ci == <<"c", "i">>

s_images_c_png == <<"i", "m", "a", "g", "e", "s", "/", "c", ".", "p", "n", "g">>

s_oebps_images_c_png == <<"O", "E", "B", "P", "S", "/", "i", "m", "a", "g", "e", "s", "/", "c", ".", "p", "n", "g">>

s_gone_png == <<"g", "o", "n", "e", ".", "p", "n", "g">>

s_nav == <<"n", "a", "v">>

s_nav_xhtml == <<"n", "a", "v", ".", "x", "h", "t", "m", "l">>

s_titlepage_html == <<"t", "i", "t", "l", "e", "p", "a", "g", "e", ".", "h", "t", "m", "l">>

s_oebps_titlepage_html == <<"O", "E", "B", "P", "S", "/", "t", "i", "t", "l", "e", "p", "a", "g", "e", ".", "h", "t", "m", "l">>

s_cover_jpg == <<"c", "o", "v", "e", "r", ".", "j", "p", "g">>

s_oebps_cover_jpg == <<"O", "E", "B", "P", "S", "/", "c", "o", "v", "e", "r", ".", "j", "p", "g">>

s_img_a_jpg == <<"i", "m", "g", "/", "a", ".", "j", "p", "g">>

s_img_b_png == <<"i", "m", "g", "/", "b", ".", "p", "n", "g">>

s_cover_png_txt == <<"c", "o", "v", "e", "r", ".", "p", "n", "g", ".", "t", "x", "t">>

s_book_cover_jpeg == <<"O", "E", "B", "P", "S", "/", "b", "o", "o", "k", "-", "c", "o", "v", "e", "r", ".", "j", "p", "e", "g">>

s_COVER_PNG == <<"C", "O", "V", "E", "R", ".", "P", "N", "G">>

s_toc_ncx == <<"t", "o", "c", ".", "n", "c", "x">>

s_cover_JPG == <<"c", "o", "v", "e", "r", ".", "J", "P", "G">>

s_Cover == <<"C", "o", "v", "e", "r">>

s_b_png == <<"b", ".", "p", "n", "g">>

s_i2 == <<"i", "2">>

s_i3 == <<"i", "3">>

s_cover_image == <<"c", "o", "v", "e", "r", "-", "i", "m", "a", "g", "e">>

s_img_slashes_c_png == <<"i", "m", "g", "/", "/", "/", "c", ".", "p", "n", "g">>

s_t_png == <<"t", ".", "p", "n", "g">>

s_dc == <<"d", "c">>

s_toc == <<"t", "o", "c">>

s_text_t2_html == <<"t", "e", "x", "t", "/", "t", "2", ".", "h", "t", "m", "l">>

s_gone_html == <<"g", "o", "n", "e", ".", "h", "t", "m", "l">>

s_up_images_cover_png == <<".", ".", "/", "i", "m", "a", "g", "e", "s", "/", "c", "o", "v", "e", "r", ".", "p", "n", "g">>

s_images_backslash_c_png == <<"i", "m", "a", "g", "e", "s", "\\", "c", ".", "p", "n", "g">>

s_abs_png == <<"/", "a", "b", "s", ".", "p", "n", "g">>

s_oebps_dir == <<"O", "E", "B", "P", "S", "/">>

(***************************************************************************)
(* Direct calls of normalize_path on every str over PathChars of at most   *)
(* MaxPathLen characters.                                                  *)
(***************************************************************************)
PathChars == {"a", "b", "c", "/", "\\"}

SeqsUpTo(S, n) == UNION {[1..k -> S] : k \in 0..n}

\* The variables of the main program, at rest while a function is called directly.
MainAtRest ==
    /\ argc = 0
    /\ size_ok = FALSE
    /\ render_ok = FALSE
    /\ cover_found = FALSE
    /\ log = <<>>
    /\ exit_code = -1
    /\ output_written = FALSE
    /\ idx = 0

InitNormalize ==
    /\ platform = "posix"
    /\ epub = NoArchive
    /\ arg \in SeqsUpTo(PathChars, MaxPathLen)
    /\ ret = NoneVal
    /\ pc = "call"
    /\ MainAtRest

CallNormalize ==
    /\ pc = "call"
    /\ ret' = Some(normalize_path(arg))
    /\ pc' = "returned"
    /\ UNCHANGED <<platform, argc, size_ok, epub, render_ok, cover_found, log,
                   exit_code, output_written, idx, arg>>

SpecNormalize == InitNormalize /\ [][CallNormalize]_vars

HasBackslash(p) == Contains(p, <<"\\">>)

HasDoubledSeparator(p) == Contains(p, <<"/", "/">>)

\* the str a\b//c of the claim, read with one backslash and with two
s_a_bs_b_c == <<"a", "\\", "b", "/", "/", "c">>

s_a_bsbs_b_c == <<"a", "\\", "\\", "b", "/", "/", "c">>

s_a_b_c == <<"a", "/", "b", "/", "c">>

\* C5: whatever str normalize_path is given, what it returns holds neither a
\* backslash nor a doubled separator "//"; and a\b//c normalizes to a/b/c.
C5_NormalizedHasNoBackslashNoDouble ==
    pc = "returned" =>
        /\ ~HasBackslash(ret.val)
        /\ ~HasDoubledSeparator(ret.val)
        /\ arg \in {s_a_bs_b_c, s_a_bsbs_b_c} => ret = Some(s_a_b_c)

(***************************************************************************)
(* Direct calls of get_cover_by_filename on every listing of at most       *)
(* MaxFiles entries drawn from FilenamePool.                               *)
(***************************************************************************)
FilenamePool ==
    {File(n, sz, ImageData) :
        n \in {s_img_a_jpg, s_img_b_png, s_book_cover_jpeg, s_COVER_PNG,
               s_cover_png_txt, s_toc_ncx},
        sz \in {10, 50}}

InitFilename ==
    /\ platform = "posix"
    /\ epub \in {[zip_ok |-> TRUE, filelist |-> fl] :
                    fl \in SeqsUpTo(FilenamePool, MaxFiles)}
    /\ arg = <<>>
    /\ ret = NoneVal
    /\ pc = "call"
    /\ MainAtRest

CallFilename ==
    /\ pc = "call"
    /\ ret' = get_cover_by_filename(epub)
    /\ pc' = "returned"
    /\ UNCHANGED <<platform, argc, size_ok, epub, render_ok, cover_found, log,
                   exit_code, output_written, idx, arg>>

SpecFilename == InitFilename /\ [][CallFilename]_vars

\* The cover-name pattern as the specification words it: the path holds
\* "cover" in any letter case and ends in .jpg, .jpeg or .png.
NamedCover(n) == LET l == Lower(n) IN Contains(l, cover_word) /\ img_ext_regex(n)

NamedCoverAt == {i \in 1..Len(epub.filelist) : NamedCover(epub.filelist[i].filename)}

ImageAt == {i \in 1..Len(epub.filelist) : img_ext_regex(epub.filelist[i].filename)}

Min(S) == CHOOSE i \in S : \A k \in S : i <= k

\* The first entry, in listing order, of the largest size among those at idxs.
FirstLargest(idxs) ==
    CHOOSE i \in idxs :
        /\ \A k \in idxs : epub.filelist[k].file_size <= epub.filelist[i].file_size
        /\ \A k \in idxs : epub.filelist[k].file_size = epub.filelist[i].file_size
                            => i <= k

\* C6: when some entry's path holds "cover" and ends in an image extension,
\* get_cover_by_filename returns the first such entry of the listing; and an
\* entry that does not both hold "cover" and end in an image extension is
\* never returned by the cover-name rule, so that whatever is returned either
\* is so named or has an image extension.
C6_FirstCoverNamedEntryWins ==
    pc = "returned" =>
        /\ NamedCoverAt # {} => ret = Some(epub.filelist[Min(NamedCoverAt)].filename)
        /\ ret.some => NamedCover(ret.val) \/ img_ext_regex(ret.val)

\* C7: when no entry matches the cover-name pattern, get_cover_by_filename
\* returns the largest entry with an image extension, the first of them in
\* listing order when several are the largest, and None when there is none.
C7_LargestImageFirstOfTies ==
    (pc = "returned" /\ NamedCoverAt = {}) =>
        IF ImageAt # {} THEN ret = Some(epub.filelist[FirstLargest(ImageAt)].filename)
        ELSE ret = NoneVal

(***************************************************************************)
(* Direct calls of get_cover_from_manifest on archives that hold a         *)
(* container.xml and the package document it names, and on archives where  *)
(* locating the package document fails.                                    *)
(***************************************************************************)
EmptyDoc == Xml(<<>>, <<>>, <<>>, <<>>, <<>>)

Container(rootfile_path) == File(container_xml, 1, Xml(<<rootfile_path>>, <<>>, <<>>, <<>>, <<>>))

Meta(name, content) == [name |-> name, content |-> content]

Item(id, properties, href) == [id |-> id, properties |-> properties, href |-> href]

Reference(type, href) == [type |-> type, href |-> href]

RootfilePaths == {s_content_opf, s_oebps_content_opf, s_deep_opf}

MetaPool ==
    {Meta(cover_word, s_ci), Meta(cover_word, <<>>), Meta(cover_word, s_i2),
     Meta(s_dc, s_ci)}

CoverItem == Item(s_ci, <<>>, s_images_c_png)

ItemPool ==
    {CoverItem,
     Item(cover_word, <<>>, s_cover_JPG),
     Item(s_Cover, <<>>, s_b_png),
     Item(s_i2, s_cover_image, s_img_slashes_c_png),
     Item(s_i3, s_ci, s_t_png),
     Item(s_nav, s_nav, s_nav_xhtml)}

\* No manifest element, one, or two of which the second holds CoverItem.
ManifestElements ==
    {<<>>}
    \cup {<<items>> : items \in SeqsUpTo(ItemPool, MaxItems)}
    \cup {<<items, <<CoverItem>>>> : items \in SeqsUpTo(ItemPool, 1)}

\* Archives in which _get_rootfile_root raises: no container.xml, one that is
\* not XML, one without a rootfile element, a rootfile that is missing, a
\* rootfile that is not XML.
GoodPackage ==
    Xml(<<>>, <<Meta(cover_word, s_ci)>>, <<<<CoverItem>>>>,
        <<Reference(cover_word, s_titlepage_html)>>, <<>>)

BrokenLocator ==
    {<<File(s_oebps_content_opf, 1, GoodPackage)>>,
     <<File(container_xml, 1, BytesData), File(s_oebps_content_opf, 1, GoodPackage)>>,
     <<File(container_xml, 1, EmptyDoc), File(s_oebps_content_opf, 1, GoodPackage)>>,
     <<Container(s_oebps_content_opf)>>,
     <<Container(s_oebps_content_opf), File(s_oebps_content_opf, 1, BytesData)>>}

ManifestInputs ==
    {[zip_ok |-> TRUE,
      filelist |-> <<Container(rp), File(rp, 1, Xml(<<>>, metas, manifest, <<>>, <<>>))>>] :
        rp \in RootfilePaths,
        metas \in SeqsUpTo(MetaPool, MaxMetas),
        manifest \in ManifestElements}
    \cup {[zip_ok |-> TRUE, filelist |-> fl] : fl \in BrokenLocator}

InitManifest ==
    /\ platform \in {"posix", "nt"}
    /\ epub \in ManifestInputs
    /\ arg = <<>>
    /\ ret = NoneVal
    /\ pc = "call"
    /\ MainAtRest

CallManifest ==
    /\ pc = "call"
    /\ ret' = get_cover_from_manifest(platform, epub)
    /\ pc' = "returned"
    /\ UNCHANGED <<platform, argc, size_ok, epub, render_ok, cover_found, log,
                   exit_code, output_written, idx, arg>>

SpecManifest == InitManifest /\ [][CallManifest]_vars

(***************************************************************************)
(* What the claims about the manifest strategy speak of, read off the      *)
(* archive of the current state.                                           *)
(***************************************************************************)
Located == _get_rootfile_root(epub)

\* coverId: the content of the (first) meta named "cover", unset without one
ClaimedCoverId(metas) ==
    LET at == {i \in 1..Len(metas) : metas[i].name = cover_word}
    IN  IF at = {} THEN NoneVal ELSE Some(metas[Min(at)].content)

HasImageExtension(href) == LET l == Lower(href) IN \E e \in ImgExts : EndsWith(l, e)

\* the four conditions of the claim
ClaimedMatch(item, coverId) ==
    \/ (coverId.some /\ item.id = coverId.val)
    \/ (Contains(item.id, cover_word) /\ HasImageExtension(item.href))
    \/ (coverId.some /\ item.properties = coverId.val)
    \/ (Contains(item.properties, cover_word) /\ HasImageExtension(item.href))

\* the items of the first manifest element, none without such an element
FirstManifest(package) ==
    IF package.manifest = <<>> THEN <<>> ELSE package.manifest[1]

\* the position of the first item that meets a condition, 0 when none does
FirstMatch(items, coverId) ==
    LET at == {i \in 1..Len(items) : ClaimedMatch(items[i], coverId)}
    IN  IF at = {} THEN 0 ELSE Min(at)

\* the rootfile's directory joined with href, normalized
UnderRootfileDir(rootfile_path, href) ==
    normalize_path(join(platform, dirname(platform, rootfile_path), href))

\* C9: get_cover_from_manifest returns the rootfile's directory joined with
\* the href of the first item of the first manifest element that meets one of
\* the four conditions, normalized; with no such item, or no manifest element,
\* it returns None.
C9_FirstMatchingItem ==
    (pc = "returned" /\ Located.ok) =>
        LET loc == Located
            items == FirstManifest(loc.root)
            first == FirstMatch(items, ClaimedCoverId(loc.root.meta))
        IN  IF first # 0
            THEN ret = Some(UnderRootfileDir(loc.rootfile_path, items[first].href))
            ELSE ret = NoneVal

\* a first match that is not the only one, found through the properties rule
C9_Witness ==
    /\ pc = "returned"
    /\ Located.ok
    /\ LET items == FirstManifest(Located.root)
           coverId == ClaimedCoverId(Located.root.meta)
       IN  /\ Len(items) = 2
           /\ ClaimedMatch(items[1], coverId)
           /\ ClaimedMatch(items[2], coverId)
           /\ items[1].properties = s_ci
           /\ items[1].id # s_ci
    /\ ret = Some(s_t_png)

\* The case of C4: a meta named "cover" with content X, and an item with id X
\* and href "images/c.png".
C4_Case ==
    /\ Located.ok
    /\ LET package == Located.root
       IN  \E i \in 1..Len(package.meta), m \in 1..Len(package.manifest) :
             \E k \in 1..Len(package.manifest[m]) :
                /\ package.meta[i].name = cover_word
                /\ package.manifest[m][k].id = package.meta[i].content
                /\ package.manifest[m][k].href = s_images_c_png

\* C4 as claimed: in that case get_cover_from_manifest returns exactly
\* "images/c.png", wherever the rootfile is and whatever the other items are.
C4_ReturnsImagesCPng ==
    (pc = "returned" /\ C4_Case) => ret = Some(s_images_c_png)

\* The case of C4 as amended: the meta is the first one named "cover", the item
\* is in the first manifest element, and no item before it meets a condition.
C4_AmendedCase ==
    /\ Located.ok
    /\ LET loc == Located
           items == FirstManifest(loc.root)
           coverId == ClaimedCoverId(loc.root.meta)
           first == FirstMatch(items, coverId)
       IN  /\ coverId.some
           /\ first # 0
           /\ items[first].id = coverId.val
           /\ items[first].href = s_images_c_png

\* C4 amended: the path returned is the rootfile's directory joined with
\* "images/c.png" and normalized: "images/c.png" for a rootfile in the root of
\* the archive, "OEBPS/images/c.png" for the rootfile OEBPS/content.opf.
C4_ReturnsPathUnderRootfileDir ==
    (pc = "returned" /\ C4_AmendedCase) =>
        LET rootfile_path == Located.rootfile_path
        IN  /\ ret = Some(UnderRootfileDir(rootfile_path, s_images_c_png))
            /\ rootfile_path = s_content_opf => ret = Some(s_images_c_png)
            /\ rootfile_path = s_oebps_content_opf => ret = Some(s_oebps_images_c_png)

C4_Witness ==
    /\ pc = "returned"
    /\ C4_AmendedCase
    /\ platform = "nt"
    /\ Located.rootfile_path = s_oebps_content_opf
    /\ Len(FirstManifest(Located.root)) = 2
    /\ ~ClaimedMatch(FirstManifest(Located.root)[1], ClaimedCoverId(Located.root.meta))
    /\ ret = Some(s_oebps_images_c_png)

(***************************************************************************)
(* Direct calls of get_cover_by_guide on archives whose package document   *)
(* holds up to MaxRefs reference elements, with the documents they point   *)
(* to present, broken or absent.                                           *)
(***************************************************************************)
ReferencePool ==
    {Reference(cover_word, s_titlepage_html),
     Reference(cover_word, s_text_t2_html),
     Reference(cover_word, s_gone_html),
     Reference(s_toc, s_titlepage_html)}

Html(imgs) == Xml(<<>>, <<>>, <<>>, <<>>, imgs)

\* the directory prefixes of the rootfile, with the rootfile in them
GuideRootfiles ==
    {[dir |-> <<>>, path |-> s_content_opf],
     [dir |-> s_oebps_dir, path |-> s_oebps_content_opf]}

TitlepageFiles(dir) ==
    {<<File(dir \o s_titlepage_html, 1, Html(<<s_cover_jpg>>))>>,
     <<File(dir \o s_titlepage_html, 1, Html(<<s_up_images_cover_png, s_b_png>>))>>,
     <<File(dir \o s_titlepage_html, 1, Html(<<>>))>>,
     <<File(dir \o s_titlepage_html, 1, BytesData)>>}

SecondPageFiles(dir) ==
    {<<File(dir \o s_text_t2_html, 1, Html(<<s_images_backslash_c_png>>))>>,
     <<File(dir \o s_text_t2_html, 1, Html(<<s_abs_png>>))>>,
     <<>>}

GuideInputs ==
    UNION {
        {[zip_ok |-> TRUE,
          filelist |-> <<Container(rf.path),
                         File(rf.path, 1, Xml(<<>>, <<>>, <<>>, refs, <<>>))>>
                       \o tp \o sp] :
            refs \in SeqsUpTo(ReferencePool, MaxRefs),
            tp \in TitlepageFiles(rf.dir),
            sp \in SecondPageFiles(rf.dir)} : rf \in GuideRootfiles}
    \cup {[zip_ok |-> TRUE, filelist |-> fl] : fl \in BrokenLocator}

InitGuide ==
    /\ platform \in {"posix", "nt"}
    /\ epub \in GuideInputs
    /\ arg = <<>>
    /\ ret = NoneVal
    /\ pc = "call"
    /\ MainAtRest

CallGuide ==
    /\ pc = "call"
    /\ ret' = get_cover_by_guide(platform, epub)
    /\ pc' = "returned"
    /\ UNCHANGED <<platform, argc, size_ok, epub, render_ok, cover_found, log,
                   exit_code, output_written, idx, arg>>

SpecGuide == InitGuide /\ [][CallGuide]_vars

\* the archive path of the document a reference points to
RefDocPath(rootfile_path, ref) == UnderRootfileDir(rootfile_path, ref.href)

\* the document of the reference opens, parses and holds an img element
RefDocHasImg(rootfile_path, ref) ==
    LET path == RefDocPath(rootfile_path, ref)
    IN  OpensAsXml(epub, path) /\ ReadEntry(epub, path).img # <<>>

\* the src of the first img of that document, resolved against its directory
RefImgPath(rootfile_path, ref) ==
    LET path == RefDocPath(rootfile_path, ref)
    IN  normalize_path(join(platform, dirname(platform, path),
                            ReadEntry(epub, path).img[1]))

\* the position of the first reference of type "cover", 0 when there is none
FirstCoverRef(refs) ==
    LET at == {i \in 1..Len(refs) : refs[i].type = cover_word}
    IN  IF at = {} THEN 0 ELSE Min(at)

\* the position of the first reference of type "cover" whose document opens,
\* parses and holds an img, 0 when there is none
FirstUsableCoverRef(rootfile_path, refs) ==
    LET at == {i \in 1..Len(refs) :
                  refs[i].type = cover_word /\ RefDocHasImg(rootfile_path, refs[i])}
    IN  IF at = {} THEN 0 ELSE Min(at)

\* C10 as claimed: the first reference of type "cover" decides: the strategy
\* returns the resolved src of the first img of its document, and None when
\* there is no such reference or its document does not open, does not parse
\* or holds no img.
C10_FirstCoverReferenceDecides ==
    (pc = "returned" /\ Located.ok) =>
        LET loc == Located
            refs == loc.root.reference
            first == FirstCoverRef(refs)
        IN  IF first # 0 /\ RefDocHasImg(loc.rootfile_path, refs[first])
            THEN ret = Some(RefImgPath(loc.rootfile_path, refs[first]))
            ELSE ret = NoneVal

\* C10 amended: the first reference of type "cover" whose document opens,
\* parses and holds an img decides; None when no reference is such, and also
\* when the package document cannot be located.  For a titlepage.html beside
\* the rootfile with <img src="cover.jpg"> the path is "cover.jpg" under the
\* directory of titlepage.html.
C10_FirstUsableCoverReferenceDecides ==
    pc = "returned" =>
        LET loc == Located
            refs == loc.root.reference
            first == IF loc.ok THEN FirstUsableCoverRef(loc.rootfile_path, refs) ELSE 0
        IN  IF first # 0
            THEN /\ ret = Some(RefImgPath(loc.rootfile_path, refs[first]))
                 /\ ( /\ refs[first].href = s_titlepage_html
                      /\ ReadEntry(epub, RefDocPath(loc.rootfile_path, refs[first])).img[1]
                            = s_cover_jpg )
                    => ret = Some(IF loc.rootfile_path = s_content_opf
                                  THEN s_cover_jpg ELSE s_oebps_cover_jpg)
            ELSE ret = NoneVal

\* the first cover reference is unusable and a later one gives the path
C10_Witness ==
    /\ pc = "returned"
    /\ Located.ok
    /\ LET refs == Located.root.reference
       IN  /\ FirstCoverRef(refs) = 1
           /\ FirstUsableCoverRef(Located.rootfile_path, refs) = 2
    /\ ret = Some(s_oebps_cover_jpg)

(***************************************************************************)
(* The inputs of a whole run: a container.xml (good or broken), a package  *)
(* document at OEBPS/content.opf, a title page, and up to MaxImages other  *)
(* entries, in that listing order.                                         *)
(***************************************************************************)
PackageFiles ==
    {<<>>,
     <<File(s_oebps_content_opf, 1, BytesData)>>,
     \* a cover meta and its manifest item
     <<File(s_oebps_content_opf, 1, GoodPackage)>>,
     \* no manifest element, a guide
     <<File(s_oebps_content_opf, 1,
            Xml(<<>>, <<>>, <<>>, <<Reference(cover_word, s_titlepage_html)>>, <<>>))>>,
     \* a manifest item whose href names no entry, and a guide
     <<File(s_oebps_content_opf, 1,
            Xml(<<>>, <<Meta(cover_word, s_ci)>>, <<<<Item(s_ci, <<>>, s_gone_png)>>>>,
                <<Reference(cover_word, s_titlepage_html)>>, <<>>))>>,
     \* a manifest without a cover, no guide
     <<File(s_oebps_content_opf, 1,
            Xml(<<>>, <<>>, <<<<Item(s_nav, s_nav, s_nav_xhtml)>>>>, <<>>, <<>>))>>}

TitlePages ==
    {<<>>,
     <<File(s_oebps_titlepage_html, 1, Html(<<>>))>>,
     <<File(s_oebps_titlepage_html, 1, Html(<<s_cover_jpg>>))>>}

ImagePool ==
    {File(s_oebps_images_c_png, 10, ImageData),
     File(s_oebps_cover_jpg, 50, ImageData),
     File(s_oebps_cover_jpg, 50, BytesData),
     File(s_img_a_jpg, 10, ImageData),
     File(s_img_b_png, 50, ImageData),
     File(s_img_b_png, 50, BytesData),
     File(s_cover_png_txt, 10, BytesData)}

BrokenContainers ==
    {<<>>, <<File(container_xml, 1, BytesData)>>, <<File(container_xml, 1, EmptyDoc)>>}

MainInputs ==
    {NoArchive}
    \cup {[zip_ok |-> TRUE,
           filelist |-> <<Container(s_oebps_content_opf)>> \o pk \o tp \o imgs] :
            pk \in PackageFiles, tp \in TitlePages,
            imgs \in SeqsUpTo(ImagePool, MaxImages)}
    \cup {[zip_ok |-> TRUE,
           filelist |-> c \o <<File(s_oebps_content_opf, 1, GoodPackage)>> \o imgs] :
            c \in BrokenContainers, imgs \in SeqsUpTo(ImagePool, MaxImages)}

(***************************************************************************)
(* The run.                                                                *)
(***************************************************************************)
Init ==
    /\ platform \in {"posix", "nt"}
    /\ render_ok \in BOOLEAN
    /\ argc = 0
    /\ size_ok = FALSE
    /\ epub = NoArchive
    /\ pc = "args"
    /\ cover_found = FALSE
    /\ log = <<>>
    /\ exit_code = -1
    /\ output_written = FALSE
    /\ idx = 0
    /\ arg = <<>>
    /\ ret = NoneVal

\* lines 156-165: a wrong argument count exits with 1; a size that is no
\* integer raises ValueError out of the program, which the interpreter turns
\* into exit status 1.
ParseArgs ==
    /\ pc = "args"
    /\ \E n \in {3, 4}, ok \in BOOLEAN :
         /\ argc' = n
         /\ size_ok' = ok
         /\ IF n = 4 /\ ok
            THEN pc' = "open" /\ exit_code' = exit_code
            ELSE pc' = "done" /\ exit_code' = 1
    /\ UNCHANGED <<platform, epub, render_ok, cover_found, log, output_written,
                   idx, arg, ret>>

\* lines 171-189: the input is read and opened as a ZIP archive
OpenArchive ==
    /\ pc = "open"
    /\ \E e \in MainInputs :
         /\ epub' = e
         /\ IF e.zip_ok
            THEN pc' = "loop" /\ idx' = 1 /\ exit_code' = exit_code
            ELSE pc' = "done" /\ idx' = idx /\ exit_code' = 1
    /\ UNCHANGED <<platform, argc, size_ok, render_ok, cover_found, log,
                   output_written, arg, ret>>

\* lines 190-205: one iteration of the loop over extraction_strategies
TryStrategy ==
    /\ pc = "loop"
    /\ \E strategy_name \in {extraction_strategies[idx]} :
       \E cover_path \in {CallStrategy(strategy_name, platform, epub)} :
       \E extracted \in {extract_cover(epub, cover_path, render_ok)} :
       \E after \in {AfterStrategy(idx, extracted)} :
           /\ log' = Append(log, Step(strategy_name, cover_path, extracted))
           /\ cover_found' = (cover_found \/ extracted)
           /\ output_written' = (output_written \/ extracted)
           /\ pc' = after.pc
           /\ idx' = after.idx
    /\ UNCHANGED <<platform, argc, size_ok, epub, render_ok, exit_code, arg, ret>>

\* lines 207-216: the fallback, skipped when a cover was found
Fallback ==
    /\ pc = "fallback"
    /\ IF ~cover_found
       THEN \E cover_path \in {find_any_image(epub)} :
            \E extracted \in {extract_cover(epub, cover_path, render_ok)} :
                /\ log' = Append(log, Step("fallback", cover_path, extracted))
                /\ cover_found' = extracted
                /\ output_written' = (output_written \/ extracted)
       ELSE UNCHANGED <<log, cover_found, output_written>>
    /\ pc' = "report"
    /\ UNCHANGED <<platform, argc, size_ok, epub, render_ok, exit_code, idx, arg, ret>>

\* lines 218-227
Exit ==
    /\ pc = "report"
    /\ exit_code' = ExitStatus(cover_found)
    /\ pc' = "done"
    /\ UNCHANGED <<platform, argc, size_ok, epub, render_ok, cover_found, log,
                   output_written, idx, arg, ret>>

Next == ParseArgs \/ OpenArchive \/ TryStrategy \/ Fallback \/ Exit

Spec == Init /\ [][Next]_vars

(***************************************************************************)
(* Properties of the run.                                                  *)
(***************************************************************************)
ChainOrder == <<"manifest", "guide", "filename", "fallback">>

Steps == 1..Len(log)

SomeStepExtracted == \E k \in Steps : log[k].extracted

\* C1: the strategies are tried in the order manifest, guide, filename,
\* fallback; a strategy is invoked only when no earlier step extracted its
\* candidate; and once a step has extracted, no further strategy is invoked
\* and the run ends in success.
C1_FixedOrderShortCircuit ==
    /\ Len(log) <= Len(ChainOrder)
    /\ \A k \in Steps : log[k].strategy = ChainOrder[k]
    /\ \A k \in Steps : k < Len(log) => ~log[k].extracted
    /\ \A k \in Steps : log[k].extracted => Truthy(log[k].cover_path) /\ cover_found
    /\ (pc = "done" /\ SomeStepExtracted) => exit_code = 0

\* the manifest candidate fails to extract, the guide candidate succeeds, and
\* neither the filename search nor the fallback runs
C1_Witness ==
    /\ pc = "done"
    /\ Len(log) = 2
    /\ Truthy(log[1].cover_path)
    /\ ~log[1].extracted
    /\ log[2].extracted
    /\ exit_code = 0

\* C2: a run with three arguments ends with exit code 0 or 1: 0 exactly when
\* extract_cover returned True for the candidate of some step (and so wrote
\* the thumbnail), 1 when the input does not open as a ZIP archive or when
\* all four steps are exhausted.  The run does not stop before it exits: every
\* position but "done" is one of which the action is enabled, and no run takes
\* more than four steps of the chain.
C2_ExitCode ==
    /\ (pc = "done" /\ argc = 4) =>
          /\ exit_code \in {0, 1}
          /\ exit_code = 0 <=> SomeStepExtracted
          /\ exit_code = 0 <=> output_written
          /\ (size_ok /\ ~epub.zip_ok) => exit_code = 1
          /\ (Len(log) = Len(ChainOrder) /\ ~SomeStepExtracted) => exit_code = 1
    /\ pc \in {"args", "open", "loop", "fallback", "report", "done"}
    /\ pc = "loop" => idx \in 1..Len(extraction_strategies)
    /\ Len(log) <= Len(ChainOrder)

\* the fallback is what writes the thumbnail
C2_Witness ==
    /\ pc = "done"
    /\ argc = 4
    /\ Len(log) = 4
    /\ log[4].extracted
    /\ exit_code = 0

NoContainer == epub.zip_ok /\ ~HasEntry(epub, container_xml)

\* C3 as claimed: an archive without META-INF/container.xml, whatever else it
\* holds, ends the run with exit code 1 and nothing written.
C3_NoContainerExitsOne ==
    (pc = "done" /\ NoContainer) => exit_code = 1 /\ ~output_written

\* no entry the filename search or the fallback can select
NoImageNamedEntry ==
    \A i \in 1..Len(epub.filelist) :
        /\ ~img_ext_regex(epub.filelist[i].filename)
        /\ ~cover_regex(epub.filelist[i].filename)

\* C3 amended: without META-INF/container.xml the manifest and the guide
\* strategy return no candidate, so only the filename search and the fallback
\* can produce the thumbnail: the run ends with exit code 0 exactly when one
\* of the two extracts its candidate, and with exit code 1 and nothing written
\* otherwise, in particular when no entry has an image or cover name.
C3_NoContainerLeavesFilenameAndFallback ==
    NoContainer =>
        /\ \A k \in Steps : k <= 2 => log[k].cover_path = NoneVal
        /\ pc = "done" =>
              /\ exit_code = 0 <=> \E k \in Steps : k >= 3 /\ log[k].extracted
              /\ exit_code = 1 <=> ~output_written
              /\ NoImageNamedEntry => exit_code = 1 /\ ~output_written

\* no container.xml, a package document that does name a cover, no image
C3_Witness ==
    /\ pc = "done"
    /\ NoContainer
    /\ HasEntry(epub, s_oebps_content_opf)
    /\ NoImageNamedEntry
    /\ Len(log) = 4
    /\ exit_code = 1
    /\ ~output_written

\* an error is raised while extract_cover works on a candidate
ExtractionRaises(cover_path) ==
    /\ Truthy(cover_path)
    /\ \/ ~HasEntry(epub, cover_path.val)
       \/ ReadEntry(epub, cover_path.val).t # "image"
       \/ ~render_ok

\* C8: an error inside a strategy (container.xml or rootfile missing or
\* malformed, no rootfile element, no manifest element) makes that step end
\* without a candidate, an error inside extract_cover makes it end as a failed
\* extraction, and the chain goes on: once the archive has opened, the run
\* reaches its end only with a thumbnail written or with all four steps
\* taken, so that only a failure to open the archive cuts the chain short.
C8_FailureIsolation ==
    epub.zip_ok =>
        /\ \A k \in Steps :
              /\ (k <= 2 /\ ~Located.ok) => log[k].cover_path = NoneVal
              /\ (k = 1 /\ Located.ok /\ Located.root.manifest = <<>>)
                    => log[k].cover_path = NoneVal
              /\ ExtractionRaises(log[k].cover_path) => ~log[k].extracted
              /\ (~log[k].extracted /\ k < Len(ChainOrder) /\ pc \in {"report", "done"})
                    => Len(log) > k
        /\ pc \in {"report", "done"} => cover_found \/ Len(log) = Len(ChainOrder)
        /\ pc = "done" => exit_code = ExitStatus(cover_found)

\* the locator fails in the first two steps, the candidate of the filename
\* search fails to decode, and the fallback still runs and succeeds
C8_Witness ==
    /\ pc = "done"
    /\ epub.zip_ok
    /\ ~Located.ok
    /\ Len(log) = 4
    /\ ExtractionRaises(log[3].cover_path)
    /\ log[4].extracted
    /\ exit_code = 0

=============================================================================
